---- MODULE Spec2Model ----
(***************************************************************************)
(* The debounced change tracker of agent.py: the watchdog handler that     *)
(* filters file events and schedules add_change on the event loop, the     *)
(* ChangeTracker (pending_changes guarded by an asyncio.Lock), the polling  *)
(* loop that calls get_ready_changes and hands each batch to                *)
(* analyze_changes, and main, which starts and stops the observer.         *)
(*                                                                         *)
(* Time is counted in ticks of 0.1 s, so DEBOUNCE_SECONDS = 2.0 is 20.     *)
(* A path is the sequence of its characters.                               *)
(***************************************************************************)
EXTENDS Integers, Sequences, FiniteSets, TLC

VARIABLES
    clock,            \* the value time.time() returns, in ticks
    pending_changes,  \* ChangeTracker.pending_changes: a dict in insertion order
    lock,             \* ChangeTracker.lock: "free" or the body that holds it
    scheduled,        \* add_change coroutines posted to the loop, oldest first
    pc,               \* monitor_loop's position
    now,              \* get_ready_changes' local now
    paths_to_remove,  \* get_ready_changes' local paths_to_remove
    ready_changes,    \* monitor_loop's ready_changes (the list get_ready_changes returned)
    dropped,          \* history: why the handler dropped its latest dropped event
    lastAdd,          \* history: path -> clock value its latest add_change wrote
    cycleStart,       \* history: path -> clock value of the first add_change since
                      \*          the path was last returned (its domain: the paths owed)
    cycles,           \* history: path -> number of settle cycles begun
    returned,         \* history: path -> number of times a drain returned it
    e2e,              \* history: progress through the end-to-end scenario
    probe,            \* the one event the watcher delivers when the filter is
                      \* examined on its own: [src_path, is_directory]
    main_pc,          \* main's position: "monitor", "stop", "join" or "done"
    observer,         \* the watchdog Observer: "started", "stopped" or "joined"
    existing_files,   \* monitor_loop's existing_files
    result_text,      \* analyze_changes' result_text
    response,         \* get_user_approval's response, as input() returned it
    in_progress,      \* history: an analyze_changes call has not yet returned
    on_disk,          \* history: the drained paths Path.exists() found this cycle
    analysis,         \* history: this cycle's analyze_changes query
    approval,         \* history: what get_user_approval returned this cycle
    fix,              \* history: this cycle's apply_fixes query
    ended,            \* history: what ended monitor_loop
    posted,           \* history: when each scheduled call was delivered (queue),
                      \*          when the latest event was (delivered), and when
                      \*          the call that wrote the latest timestamp was (writer)
    md_files,         \* task_detector: TODO.md, PLAN.md and CLAUDE.md on the disk
    td_pc,            \* task_detector: the position of the running call
    line_no,          \* parse_todo_md: lines of the file its loop has handled
    current_section,  \* parse_todo_md's current_section
    tasks             \* parse_todo_md's / get_pending_tasks' tasks

workflow == <<main_pc, observer, existing_files, result_text, response,
              in_progress, on_disk, analysis, approval, fix, ended>>

detector == <<md_files, td_pc, line_no, current_section, tasks>>

vars == <<clock, pending_changes, lock, scheduled, pc, now,
          paths_to_remove, ready_changes, dropped, lastAdd, cycleStart,
          cycles, returned, e2e, probe, workflow, posted, detector>>

tracker == <<pending_changes, lock, now, paths_to_remove, ready_changes>>
history == <<lastAdd, cycleStart, cycles, returned, e2e>>

----------------------------------------------------------------------------
(* Configuration *)

DEBOUNCE_SECONDS == 20

IGNORE_PATTERNS ==
    { <<".", "g", "i", "t">>,
      <<"_", "_", "p", "y", "c", "a", "c", "h", "e", "_", "_">>,
      <<"v", "e", "n", "v">>,
      <<".", "v", "e", "n", "v">>,
      <<"n", "o", "d", "e", "_", "m", "o", "d", "u", "l", "e", "s">>,
      <<".", "p", "y", "c">>,
      <<".", "p", "y", "o">> }

(* Bounds of the model *)

MaxQueue == 1

\* The calls that may wait on the event loop when the watcher delivers events
\* for one file only.
MaxProbeQueue == 2

\* The instants at which the clock is read: 0 s, 0.1 s, 1.0 s, 2.1 s, 2.2 s and
\* 4.1 s, which lie 0.9 s to 4.1 s apart: less than a settle window (1.9 s),
\* exactly one (2.0 s) and more (2.1 s).
Instants == {0, 1, 10, 21, 22, 41}

\* The src_path values the watcher delivers.
PathA == <<"a">>
PathB == <<"b">>
EventPaths ==
    { PathA,
      PathB,
      <<"/", "p", "/", ".", "g", "i", "t", "/", "c">>,
      <<"/", "_", "_", "p", "y", "c", "a", "c", "h", "e", "_", "_", "/", "m">>,
      <<"v", "e", "n", "v", "/", "s">>,
      <<"/", ".", "v", "e", "n", "v", "/", "b">>,
      <<"n", "o", "d", "e", "_", "m", "o", "d", "u", "l", "e", "s", "/", "i">>,
      <<"/", "p", "/", "m", ".", "p", "y", "c">>,
      <<"m", ".", "p", "y", "o">> }

\* The filter examined on its own: the src_path values made of at most
\* MaxPieces of these pieces, so that an ignored name is a whole segment
\* (".git/m"), the start, the middle or the end of a longer one (".gitm",
\* "m.git.py", "m.git", "mvenv"), and a suffix is at the end or not (".pyc").
MaxPieces == 3

Pieces ==
    { <<"/">>,
      <<"m">>,
      <<".", "g", "i", "t">>,
      <<"v", "e", "n", "v">>,
      <<".", "p", "y", "c">>,
      <<".", "p", "y">> }

RECURSIVE Joined(_)
Joined(n) ==
    IF n = 0 THEN { <<>> }
    ELSE { piece \o rest : piece \in Pieces, rest \in Joined(n - 1) }

ProbePaths == UNION { Joined(n) : n \in 1..MaxPieces }

NoProbe == [src_path |-> <<>>, is_directory |-> FALSE]

----------------------------------------------------------------------------
(* pathlib.Path(path).parts and str.endswith *)

RECURSIVE SplitSlash(_)
SplitSlash(s) ==
    IF s = <<>> THEN << <<>> >>
    ELSE LET rest == SplitSlash(Tail(s))
         IN  IF Head(s) = "/" THEN << <<>> >> \o rest
             ELSE << <<Head(s)>> \o Head(rest) >> \o Tail(rest)

\* The root, when the path is absolute, then the segments; empty segments and
\* "." segments are not parts.
Parts(path) ==
    (IF path # <<>> /\ Head(path) = "/" THEN << <<"/">> >> ELSE <<>>)
    \o SelectSeq(SplitSlash(path), LAMBDA seg : seg # <<>> /\ seg # <<".">>)

EndsWith(path, pattern) ==
    /\ Len(pattern) <= Len(path)
    /\ SubSeq(path, Len(path) - Len(pattern) + 1, Len(path)) = pattern

\* _should_ignore without the test on the path's parts
_should_ignore_suffix_only(path) ==
    \E pattern \in IGNORE_PATTERNS : EndsWith(path, pattern)

_should_ignore(path) ==
    \E pattern \in IGNORE_PATTERNS :
        \/ \E i \in 1..Len(Parts(path)) : Parts(path)[i] = pattern
        \/ EndsWith(path, pattern)

\* _should_ignore on the paths the watcher delivers, computed once
ShouldIgnore == [path \in EventPaths \cup ProbePaths |-> _should_ignore(path)]

----------------------------------------------------------------------------
(* dict operations on pending_changes: a sequence of [path, timestamp] *)

Keys(d) == { d[i].path : i \in 1..Len(d) }

Get(d, path) == (CHOOSE i \in 1..Len(d) : d[i].path = path)

\* d[path]
Timestamp(d, path) == d[Get(d, path)].timestamp

\* d.setdefault(path, timestamp): the first timestamp of a key is kept
SetItemKeepFirst(d, path, timestamp) ==
    IF path \in Keys(d) THEN d
    ELSE Append(d, [path |-> path, timestamp |-> timestamp])

\* a list of observations: every call adds an entry
SetItemAppend(d, path, timestamp) ==
    Append(d, [path |-> path, timestamp |-> timestamp])

\* d[path] = timestamp: an existing key keeps its place, a new one goes last
SetItem(d, path, timestamp) ==
    IF path \in Keys(d)
    THEN [i \in 1..Len(d) |->
            IF d[i].path = path THEN [path |-> path, timestamp |-> timestamp]
            ELSE d[i]]
    ELSE Append(d, [path |-> path, timestamp |-> timestamp])

\* d.pop(next(iter(d))): the oldest entry goes, whatever the key
PopOldest(d, path) == IF d = <<>> THEN d ELSE Tail(d)

\* d.pop(path, None)
Pop(d, path) == SelectSeq(d, LAMBDA e : e.path # path)

\* the loop without its pop: the paths are returned and stay in the table
PopAllKeep(d, paths) == d

\* d.clear() once a path is ready
PopAllClear(d, paths) == IF paths = <<>> THEN d ELSE <<>>

RECURSIVE PopAll(_, _)
PopAll(d, paths) ==
    IF paths = <<>> THEN d ELSE PopAll(Pop(d, Head(paths)), Tail(paths))

Range(s) == { s[i] : i \in 1..Len(s) }

\* partial function f with f[x] set to v
Store(f, x, v) == [y \in DOMAIN f \cup {x} |-> IF y = x THEN v ELSE f[y]]
Without(f, S) == [y \in DOMAIN f \ S |-> f[y]]
Count(f, x) == IF x \in DOMAIN f THEN f[x] ELSE 0

----------------------------------------------------------------------------
InitTracker ==
    /\ clock = 0
    /\ pending_changes = <<>>
    /\ lock = "free"
    /\ scheduled = <<>>
    /\ pc = "poll"
    /\ now = 0
    /\ paths_to_remove = <<>>
    /\ ready_changes = <<>>
    /\ dropped = "none"
    /\ lastAdd = <<>>
    /\ cycleStart = <<>>
    /\ cycles = <<>>
    /\ returned = <<>>
    /\ e2e = 0
    /\ posted = [queue |-> <<>>, delivered |-> 0, writer |-> 0, held |-> FALSE]

\* main has started the observer and awaits monitor_loop
InitWorkflow ==
    /\ main_pc = "monitor"
    /\ observer = "started"
    /\ existing_files = <<>>
    /\ result_text = <<>>
    /\ response = <<>>
    /\ in_progress = FALSE
    /\ on_disk = {}
    /\ analysis = "none"
    /\ approval = "none"
    /\ fix = "none"
    /\ ended = "no"

\* no call of the task detector is running
InitDetector ==
    /\ md_files = <<>>
    /\ td_pc = "idle"
    /\ line_no = 0
    /\ current_section = <<>>
    /\ tasks = <<>>

Init ==
    /\ InitTracker
    /\ InitWorkflow
    /\ InitDetector
    /\ probe = NoProbe

\* Time passes: the clock moves to the next instant.
Tick ==
    /\ \E t \in Instants :
          /\ t > clock
          /\ \A u \in Instants : u > clock => t <= u
          /\ clock' = t
    /\ UNCHANGED <<scheduled, pc, dropped>>
    /\ UNCHANGED tracker
    /\ UNCHANGED history
    /\ UNCHANGED <<probe, workflow>>
    /\ UNCHANGED <<posted, detector>>

----------------------------------------------------------------------------
(* FileChangeHandler, on a watcher thread *)

\* the watcher delivers events for one file only
OneFile == probe # NoProbe

QueueBound == IF OneFile THEN MaxProbeQueue ELSE MaxQueue

\* an event loop that a synchronous call does not hold up
BlockedNever == FALSE

\* get_user_approval calls input() without awaiting: from the prompt to the
\* answer the thread of the event loop is inside input(), and no callback or
\* task of the loop runs.
Blocked == pc = "approve"

\* History of a delivery, kept when one file is watched: the clock, whether
\* a batch was being handled and whether the event loop was blocked.
Stamp ==
    IF OneFile
    THEN [at |-> clock, busy |-> in_progress, blocked |-> Blocked]
    ELSE [at |-> 0, busy |-> FALSE, blocked |-> FALSE]

HandleEvent(src_path, is_directory) ==
    /\ IF is_directory \/ ShouldIgnore[src_path]
       THEN /\ dropped' = (IF is_directory THEN "directory" ELSE "ignored")
            /\ UNCHANGED <<scheduled, posted>>
       ELSE \* asyncio.run_coroutine_threadsafe(self.tracker.add_change(path), loop)
            /\ Len(scheduled) < QueueBound
            /\ scheduled' = Append(scheduled, src_path)
            /\ posted' = [posted EXCEPT
                             !.queue = Append(@, Stamp),
                             !.delivered = IF OneFile THEN clock ELSE @]
            /\ UNCHANGED dropped
    /\ UNCHANGED <<clock, pc>>
    /\ UNCHANGED tracker
    /\ UNCHANGED history
    /\ UNCHANGED <<probe, workflow>>
    /\ UNCHANGED detector

on_modified ==
    \E src_path \in EventPaths, is_directory \in BOOLEAN :
        HandleEvent(src_path, is_directory)

on_created ==
    \E src_path \in EventPaths, is_directory \in BOOLEAN :
        HandleEvent(src_path, is_directory)

----------------------------------------------------------------------------
(* ChangeTracker *)

\* a body that does not wait for the lock
LockFreeAlways == TRUE

LockFree == lock = "free"

E2EAfterAdd(path, t) ==
    IF e2e = 0 /\ path = PathA /\ t = 0 THEN 1
    ELSE IF e2e = 1 /\ path = PathB /\ t = 1 THEN 2
    ELSE 6

\* loop.call_soon runs the newest call first
NextCallNewest(calls) == Len(calls)

\* The event loop runs its callbacks first in, first out.
NextCall(calls) == 1

RemoveAt(calls, i) ==
    [j \in 1..(Len(calls) - 1) |-> IF j < i THEN calls[j] ELSE calls[j + 1]]

\* The event loop runs the oldest scheduled add_change: it takes the lock,
\* "self.pending_changes[path] = time.time()", and releases the lock. Nothing
\* is awaited between the lock's acquisition and its release.
add_change ==
    /\ scheduled # <<>>
    /\ LockFree
    /\ LET i == NextCall(scheduled)
           path == scheduled[i]
       IN  /\ pending_changes' = SetItem(pending_changes, path, clock)
           /\ lastAdd' = Store(lastAdd, path, clock)
           /\ cycleStart' = IF path \in DOMAIN cycleStart THEN cycleStart
                            ELSE Store(cycleStart, path, clock)
           /\ cycles' = IF path \in DOMAIN cycleStart THEN cycles
                        ELSE Store(cycles, path, Count(cycles, path) + 1)
           /\ e2e' = E2EAfterAdd(path, clock)
           /\ scheduled' = RemoveAt(scheduled, i)
           /\ posted' = [posted EXCEPT
                            !.queue = RemoveAt(@, i),
                            !.writer = posted.queue[i].at,
                            !.held = posted.queue[i].blocked]
    /\ UNCHANGED <<clock, lock, pc, dropped, now, paths_to_remove,
                   ready_changes, returned>>
    /\ UNCHANGED <<probe, workflow>>
    /\ UNCHANGED detector

\* the comparison turned round
SettledFlipped(t, timestamp) == t - timestamp <= DEBOUNCE_SECONDS

\* > for >=
SettledStrict(t, timestamp) == t - timestamp > DEBOUNCE_SECONDS

Settled(t, timestamp) == t - timestamp >= DEBOUNCE_SECONDS

E2EAfterDrain(t) ==
    IF e2e = 2 /\ t = 10 THEN 3
    ELSE IF e2e = 3 /\ t = 21 THEN 4
    ELSE IF e2e = 4 /\ t = 22 THEN 5
    ELSE 6

\* get_ready_changes, from the lock's acquisition to the list paths_to_remove
get_ready_changes_collect ==
    /\ pc = "poll"
    /\ LockFree
    /\ lock' = "get_ready_changes"
    /\ now' = clock
    /\ paths_to_remove' =
         LET settled == SelectSeq(pending_changes,
                                  LAMBDA e : Settled(clock, e.timestamp))
         IN  [i \in 1..Len(settled) |-> settled[i].path]
    /\ e2e' = E2EAfterDrain(clock)
    /\ pc' = "drain"
    /\ UNCHANGED <<clock, scheduled, dropped, pending_changes,
                   ready_changes, lastAdd, cycleStart, cycles, returned>>
    /\ UNCHANGED <<probe, workflow>>
    /\ UNCHANGED <<posted, detector>>

\* get_ready_changes, the loop that pops each path and appends it to ready,
\* the return and the lock's release
get_ready_changes_remove ==
    /\ pc = "drain"
    /\ LET ready == paths_to_remove
       IN  /\ pending_changes' = PopAll(pending_changes, paths_to_remove)
           /\ ready_changes' = ready
           /\ cycleStart' = Without(cycleStart, Range(ready))
           /\ returned' = [p \in DOMAIN returned \cup Range(ready) |->
                             Count(returned, p)
                             + Cardinality({i \in 1..Len(ready) : ready[i] = p})]
    /\ lock' = "free"
    /\ pc' = "handle"
    /\ UNCHANGED <<clock, scheduled, dropped, now, paths_to_remove,
                   lastAdd, cycles, e2e>>
    /\ UNCHANGED <<probe, workflow>>
    /\ UNCHANGED <<posted, detector>>

----------------------------------------------------------------------------
(* monitor_loop *)

\* an iteration that is not followed by another
monitor_loop_once ==
    /\ pc = "handle"
    /\ pc' = "done"
    /\ now' = 0
    /\ paths_to_remove' = <<>>
    /\ ready_changes' = <<>>
    /\ UNCHANGED <<clock, scheduled, dropped, pending_changes, lock>>
    /\ UNCHANGED history
    /\ UNCHANGED <<probe, workflow>>
    /\ UNCHANGED <<posted, detector>>

\* the rest of an iteration: the batch is handled, then asyncio.sleep(0.5)
monitor_loop_rest ==
    /\ pc = "handle"
    /\ pc' = "poll"
    /\ now' = 0
    /\ paths_to_remove' = <<>>
    /\ ready_changes' = <<>>
    /\ UNCHANGED <<clock, scheduled, dropped, pending_changes, lock>>
    /\ UNCHANGED history
    /\ UNCHANGED <<probe, workflow>>
    /\ UNCHANGED <<posted, detector>>

----------------------------------------------------------------------------
(* monitor_loop, step by step: the existence filter, analyze_changes with   *)
(* its query, its prompt and apply_fixes, and the sleep                     *)

\* what the handling of a batch leaves alone
outside == <<clock, pending_changes, scheduled, dropped, probe, posted,
             detector>>

\* the drained list, unfiltered
NoFilter(ready, present) == ready

\* [f for f in ready_changes if Path(f).exists()], present being the paths
\* for which exists() is True
ExistingOnly(ready, present) == SelectSeq(ready, LAMBDA f : f \in present)

\* asyncio.create_task(analyze_changes(existing_files)): monitor_loop goes on
analyze_changes_spawned == "sleep"

\* "await analyze_changes(existing_files)": monitor_loop waits inside the call
analyze_changes_awaited == "analyze"

\* observer.stop() and observer.join() in the except clause only
main_except_only(cause) == IF cause = "KeyboardInterrupt" THEN "stop" ELSE "done"

\* main's try statement: whatever ends monitor_loop, the finally clause runs
main_finally(cause) == "stop"

\* analyze_changes returns to monitor_loop, which goes to its sleep
Return ==
    /\ pc' = "sleep"
    /\ in_progress' = FALSE
    /\ existing_files' = <<>>
    /\ on_disk' = {}
    /\ result_text' = <<>>

\* An exception leaves monitor_loop and reaches main's try statement; the
\* "async with" releases the lock on the way.
EndLoop(cause) ==
    /\ pc' = "ended"
    /\ ended' = cause
    /\ main_pc' = main_finally(cause)
    /\ lock' = "free"
    /\ now' = 0
    /\ paths_to_remove' = <<>>
    /\ ready_changes' = <<>>
    /\ existing_files' = <<>>
    /\ result_text' = <<>>
    /\ response' = <<>>
    /\ in_progress' = FALSE
    /\ on_disk' = {}
    /\ analysis' = "none"
    /\ approval' = "none"
    /\ fix' = "none"
    /\ UNCHANGED observer
    /\ UNCHANGED outside
    /\ UNCHANGED history

\* "if ready_changes:", the existence filter, "if existing_files:" and the
\* call of analyze_changes up to its query
monitor_loop_filter ==
    /\ pc = "handle"
    /\ \E present \in SUBSET Range(ready_changes) :
          LET files == ExistingOnly(ready_changes, present)
          IN  /\ on_disk' = (IF files # <<>> THEN present ELSE {})
              /\ existing_files' = files
              /\ IF files # <<>>
                 THEN /\ in_progress' = TRUE
                      /\ analysis' = "running"
                      /\ pc' = analyze_changes_awaited
                 ELSE /\ UNCHANGED <<in_progress, analysis>>
                      /\ pc' = "sleep"
    /\ now' = 0
    /\ paths_to_remove' = <<>>
    /\ ready_changes' = <<>>
    /\ UNCHANGED <<lock, main_pc, observer, result_text, response, approval,
                   fix, ended>>
    /\ UNCHANGED outside
    /\ UNCHANGED history

\* Path(f).exists() raises OSError (a name too long, a directory that may
\* not be searched): nothing in monitor_loop catches it
monitor_loop_exists_raises ==
    /\ pc = "handle"
    /\ ready_changes # <<>>
    /\ EndLoop("OSError")

----------------------------------------------------------------------------
(* str.strip, str.lower and the substring test, on sequences of characters *)

UpperCase == <<"A", "B", "C", "D", "E", "F", "G", "H", "I", "J", "K", "L", "M",
               "N", "O", "P", "Q", "R", "S", "T", "U", "V", "W", "X", "Y", "Z">>
LowerCase == <<"a", "b", "c", "d", "e", "f", "g", "h", "i", "j", "k", "l", "m",
               "n", "o", "p", "q", "r", "s", "t", "u", "v", "w", "x", "y", "z">>

LowerChar(c) ==
    IF \E i \in DOMAIN UpperCase : UpperCase[i] = c
    THEN LowerCase[CHOOSE i \in DOMAIN UpperCase : UpperCase[i] = c]
    ELSE c

Lower(s) == [i \in 1..Len(s) |-> LowerChar(s[i])]

IsSpace(c) == c \in {" ", "\t"}

RECURSIVE LStrip(_)
LStrip(s) == IF s # <<>> /\ IsSpace(Head(s)) THEN LStrip(Tail(s)) ELSE s

RECURSIVE RStrip(_)
RStrip(s) ==
    IF s # <<>> /\ IsSpace(s[Len(s)]) THEN RStrip(SubSeq(s, 1, Len(s) - 1))
    ELSE s

Strip(s) == RStrip(LStrip(s))

\* keyword in text
Contains(text, keyword) ==
    \E i \in 1..Len(text) :
        /\ i + Len(keyword) - 1 <= Len(text)
        /\ SubSeq(text, i, i + Len(keyword) - 1) = keyword

\* the keywords analyze_changes looks for in the analysis
Keywords ==
    { <<"i", "s", "s", "u", "e">>,
      <<"e", "r", "r", "o", "r">>,
      <<"b", "u", "g">>,
      <<"f", "i", "x">>,
      <<"p", "r", "o", "b", "l", "e", "m">>,
      <<"s", "h", "o", "u", "l", "d">> }

\* any(keyword in result_text.lower() for keyword in [...])
FixesNeeded(text) == \E keyword \in Keywords : Contains(Lower(text), keyword)

\* The texts the analysis query yields: "ok" and "Bug".
ResultTexts == { <<"o", "k">>, <<"B", "u", "g">> }

\* The lines input() returns: y, " YES", "Yes" and a tab, n, "No ", the empty
\* line, a blank, ye, nope, yn.
Responses ==
    { <<"y">>,
      <<" ", "Y", "E", "S">>,
      <<"Y", "e", "s", "\t">>,
      <<"n">>,
      <<"N", "o", " ">>,
      <<>>,
      <<" ">>,
      <<"y", "e">>,
      <<"n", "o", "p", "e">>,
      <<"y", "n">> }

----------------------------------------------------------------------------
(* analyze_changes, get_user_approval and apply_fixes *)

\* the query returns its text; the keywords decide whether the user is asked
analyze_changes_query ==
    /\ pc = "analyze"
    /\ analysis' = "ok"
    /\ \E text \in ResultTexts :
          IF FixesNeeded(text)
          THEN /\ result_text' = text
               /\ pc' = "approve"
               /\ UNCHANGED <<in_progress, existing_files, on_disk>>
          ELSE Return
    /\ UNCHANGED <<lock, now, paths_to_remove, ready_changes, main_pc,
                   observer, response, approval, fix, ended>>
    /\ UNCHANGED outside
    /\ UNCHANGED history

\* the query without its try statement: the exception leaves analyze_changes
analyze_changes_raises ==
    /\ pc = "analyze"
    /\ EndLoop("Exception")

\* a handler that records the failed batch again for a later analysis
analyze_changes_retry ==
    /\ pc = "analyze"
    /\ analysis' = "failed"
    /\ Return
    /\ pending_changes' = SetItem(pending_changes, existing_files[1], clock)
    /\ UNCHANGED <<lock, now, paths_to_remove, ready_changes, main_pc,
                   observer, response, approval, fix, ended>>
    /\ UNCHANGED <<clock, scheduled, dropped, probe, posted, detector>>
    /\ UNCHANGED history

\* the query raises an Exception: "Analysis failed ... Continuing to monitor"
analyze_changes_except ==
    /\ pc = "analyze"
    /\ analysis' = "failed"
    /\ Return
    /\ UNCHANGED <<lock, now, paths_to_remove, ready_changes, main_pc,
                   observer, response, approval, fix, ended>>
    /\ UNCHANGED outside
    /\ UNCHANGED history

\* input(...).strip(): the case is kept
NormalizeCase(line) == Strip(line)

\* input(...).strip().lower()
Normalize(line) == Lower(Strip(line))

\* one round of get_user_approval's loop: "yes" for return True, "no" for
\* return False, "again" for the next prompt
Answer(line) ==
    LET r == Normalize(line)
    IN  IF r \in { <<"y">>, <<"y", "e", "s">> } THEN "yes"
        ELSE IF r \in { <<"n">>, <<"n", "o">> } THEN "no"
        ELSE "again"

\* apply_fixes whatever the answer
AfterApprovalAlways(answer) == "fix"

\* analyze_changes after the prompt: apply_fixes on True, a message on False
AfterApproval(answer) == IF answer = "yes" THEN "fix" ELSE "sleep"

\* input() returns a line
get_user_approval ==
    /\ pc = "approve"
    /\ \E line \in Responses :
          /\ response' = line
          /\ LET answer == Answer(line)
             IN  IF answer = "again"
                 THEN UNCHANGED <<pc, approval, fix, in_progress,
                                  existing_files, on_disk, result_text>>
                 ELSE /\ approval' = answer
                      /\ IF AfterApproval(answer) = "fix"
                         THEN /\ pc' = "fix"
                              /\ fix' = "running"
                              /\ UNCHANGED <<in_progress, existing_files,
                                             on_disk, result_text>>
                         ELSE /\ Return
                              /\ UNCHANGED fix
    /\ UNCHANGED <<lock, now, paths_to_remove, ready_changes, main_pc,
                   observer, analysis, ended>>
    /\ UNCHANGED outside
    /\ UNCHANGED history

\* input() raises EOFError (standard input is closed or at its end): nothing
\* in get_user_approval, analyze_changes or monitor_loop catches it
get_user_approval_eof ==
    /\ pc = "approve"
    /\ EndLoop("EOFError")

\* apply_fixes' query returns: "Fixes applied!"
apply_fixes_query ==
    /\ pc = "fix"
    /\ fix' = "ok"
    /\ Return
    /\ UNCHANGED <<lock, now, paths_to_remove, ready_changes, main_pc,
                   observer, response, analysis, approval, ended>>
    /\ UNCHANGED outside
    /\ UNCHANGED history

\* apply_fixes' query raises an Exception: "Applying fixes failed ..."
apply_fixes_except ==
    /\ pc = "fix"
    /\ fix' = "failed"
    /\ Return
    /\ UNCHANGED <<lock, now, paths_to_remove, ready_changes, main_pc,
                   observer, response, analysis, approval, ended>>
    /\ UNCHANGED outside
    /\ UNCHANGED history

\* asyncio.sleep(0.5) returns and the loop starts its next iteration
monitor_loop_sleep ==
    /\ pc = "sleep"
    /\ pc' = "poll"
    /\ response' = <<>>
    /\ analysis' = "none"
    /\ approval' = "none"
    /\ fix' = "none"
    /\ UNCHANGED <<lock, now, paths_to_remove, ready_changes, main_pc,
                   observer, existing_files, result_text, in_progress,
                   on_disk, ended>>
    /\ UNCHANGED outside
    /\ UNCHANGED history

----------------------------------------------------------------------------
(* main *)

\* Ctrl+C, or the cancellation of the task that runs main: the exception is
\* raised inside monitor_loop, wherever it is
interrupt ==
    /\ main_pc = "monitor"
    /\ \E cause \in {"KeyboardInterrupt", "CancelledError"} : EndLoop(cause)

\* finally: observer.stop()
main_observer_stop ==
    /\ main_pc = "stop"
    /\ observer' = "stopped"
    /\ main_pc' = "join"
    /\ UNCHANGED <<pc, existing_files, result_text, response, in_progress,
                   on_disk, analysis, approval, fix, ended>>
    /\ UNCHANGED tracker
    /\ UNCHANGED outside
    /\ UNCHANGED history

\* finally: observer.join(), then main is over
main_observer_join ==
    /\ main_pc = "join"
    /\ observer' = "joined"
    /\ main_pc' = "done"
    /\ UNCHANGED <<pc, existing_files, result_text, response, in_progress,
                   on_disk, analysis, approval, fix, ended>>
    /\ UNCHANGED tracker
    /\ UNCHANGED outside
    /\ UNCHANGED history

----------------------------------------------------------------------------
(* The whole program, with a coarser clock: 0 s, 2.1 s and 4.1 s.          *)

LoopInstants == {0, 21, 41}

TickLoop ==
    /\ \E t \in LoopInstants :
          /\ t > clock
          /\ \A u \in LoopInstants : u > clock => t <= u
          /\ clock' = t
    /\ UNCHANGED <<scheduled, pc, dropped>>
    /\ UNCHANGED tracker
    /\ UNCHANGED history
    /\ UNCHANGED <<probe, workflow>>
    /\ UNCHANGED <<posted, detector>>

\* the watcher's threads deliver events until the observer is joined; the
\* event loop runs coroutines while main awaits monitor_loop
NextLoop ==
    \/ TickLoop
    \/ observer # "joined" /\ on_modified
    \/ observer # "joined" /\ on_created
    \/ main_pc = "monitor" /\ ~Blocked /\ add_change
    \/ main_pc = "monitor" /\ get_ready_changes_collect
    \/ main_pc = "monitor" /\ get_ready_changes_remove
    \/ monitor_loop_filter
    \/ monitor_loop_exists_raises
    \/ analyze_changes_query
    \/ analyze_changes_except
    \/ get_user_approval
    \/ get_user_approval_eof
    \/ apply_fixes_query
    \/ apply_fixes_except
    \/ monitor_loop_sleep
    \/ interrupt
    \/ main_observer_stop
    \/ main_observer_join

SpecLoop == Init /\ [][NextLoop]_vars

----------------------------------------------------------------------------
(* The filter on its own: the watcher delivers the one event probe, and the *)
(* event loop runs what the handler scheduled.                              *)

InitIgnore ==
    /\ InitTracker
    /\ InitWorkflow
    /\ InitDetector
    /\ probe \in [src_path : ProbePaths, is_directory : BOOLEAN]

dispatch == HandleEvent(probe.src_path, probe.is_directory)

NextIgnore ==
    \/ dispatch
    \/ add_change

SpecIgnore == InitIgnore /\ [][NextIgnore]_vars

----------------------------------------------------------------------------
(* task_detector.py: the regular expressions, on stripped lines.           *)
(* A task's priority and type are sequences of characters; None is <<>>.    *)

None == <<>>

StartsWith(s, prefix) ==
    /\ Len(prefix) <= Len(s)
    /\ SubSeq(s, 1, Len(prefix)) = prefix

Digits == <<"0", "1", "2", "3", "4", "5", "6", "7", "8", "9">>

\* \w
IsWord(c) ==
    \/ \E i \in DOMAIN LowerCase : LowerCase[i] = c \/ UpperCase[i] = c
    \/ \E i \in DOMAIN Digits : Digits[i] = c
    \/ c = "_"

UpperChar(c) ==
    IF \E i \in DOMAIN LowerCase : LowerCase[i] = c
    THEN UpperCase[CHOOSE i \in DOMAIN LowerCase : LowerCase[i] = c]
    ELSE c

Upper(s) == [i \in 1..Len(s) |-> UpperChar(s[i])]

\* s[i:], i counted from 1
From(s, i) == SubSeq(s, i, Len(s))

\* the position after the longest run of whitespace from position i
RECURSIVE AfterSpaces(_, _)
AfterSpaces(s, i) ==
    IF i <= Len(s) /\ IsSpace(s[i]) THEN AfterSpaces(s, i + 1) ELSE i

\* the position after the longest run of \w from position i
RECURSIVE AfterWord(_, _)
AfterWord(s, i) ==
    IF i <= Len(s) /\ IsWord(s[i]) THEN AfterWord(s, i + 1) ELSE i

At(s, i, c) == i <= Len(s) /\ s[i] = c

\* backlog_task_pattern.match(stripped), ^###\s+\[(\w+)\]\s+(@\w+)\s+-\s+(.+)$ :
\* the groups, or matched FALSE
BacklogMatch(s) ==
    LET open == AfterSpaces(s, 4)
        close == AfterWord(s, open + 1)
        at == AfterSpaces(s, close + 1)
        type_end == AfterWord(s, at + 1)
        dash == AfterSpaces(s, type_end)
        title == AfterSpaces(s, dash + 1)
    IN  IF /\ StartsWith(s, <<"#", "#", "#">>)
           /\ open > 4 /\ At(s, open, "[")
           /\ close > open + 1 /\ At(s, close, "]")
           /\ at > close + 1 /\ At(s, at, "@")
           /\ type_end > at + 1
           /\ dash > type_end /\ At(s, dash, "-")
           /\ title > dash + 1 /\ title <= Len(s)
        THEN [matched |-> TRUE,
              priority |-> SubSeq(s, open + 1, close - 1),
              type |-> SubSeq(s, at, type_end - 1),
              title |-> From(s, title)]
        ELSE [matched |-> FALSE]

\* unchecked_pattern.match(stripped), ^-\s+\[\s*\]\s+(.+)$
UncheckedMatch(s) ==
    LET open == AfterSpaces(s, 2)
        close == AfterSpaces(s, open + 1)
        title == AfterSpaces(s, close + 1)
    IN  IF /\ At(s, 1, "-")
           /\ open > 2 /\ At(s, open, "[")
           /\ At(s, close, "]")
           /\ title > close + 1 /\ title <= Len(s)
        THEN [matched |-> TRUE, title |-> From(s, title)]
        ELSE [matched |-> FALSE]

\* todo_pattern.match(stripped), ^TODO:\s+(.+)$ with re.IGNORECASE
TodoMatch(s) ==
    LET title == AfterSpaces(s, 6)
    IN  IF /\ Len(s) >= 5
           /\ Lower(SubSeq(s, 1, 5)) = <<"t", "o", "d", "o", ":">>
           /\ title > 6 /\ title <= Len(s)
        THEN [matched |-> TRUE, title |-> From(s, title)]
        ELSE [matched |-> FALSE]

Task(source, title, priority, type) ==
    [source |-> source, title |-> title, priority |-> priority, type |-> type]

\* the names current_section takes for the three known sections
in_progress_section == <<"i", "n", "_", "p", "r", "o", "g", "r", "e", "s", "s">>
backlog_section == <<"b", "a", "c", "k", "l", "o", "g">>
completed_section == <<"c", "o", "m", "p", "l", "e", "t", "e", "d">>

in_progress_placeholder ==
    <<"_", "N", "o", " ", "t", "a", "s", "k", "s", " ", "c", "u", "r", "r",
      "e", "n", "t", "l", "y", " ", "i", "n", " ", "p", "r", "o", "g", "r",
      "e", "s", "s", "_">>

SectionHeader == <<"#", "#", " ">>
SimpleHeader == <<"#", "#", "#", " ">>
BracketHeaderAny == <<"#", "#", "#", " ">>
BracketHeader == <<"#", "#", "#", " ", "[">>

\* current_section after a line that starts with "## "
SectionOf(stripped) ==
    LET section_name == Strip(From(stripped, 4))
    IN  IF section_name = <<"I", "n", " ", "P", "r", "o", "g", "r", "e", "s", "s">>
        THEN in_progress_section
        ELSE IF section_name = <<"B", "a", "c", "k", "l", "o", "g">>
        THEN backlog_section
        ELSE IF section_name = <<"C", "o", "m", "p", "l", "e", "t", "e", "d">>
        THEN completed_section
        ELSE Lower(section_name)

\* the task of a full header, its priority as written
TodoTaskAsWritten(m) == Task("TODO.md", Strip(m.title), m.priority, m.type)

TodoTask(m) == Task("TODO.md", Strip(m.title), Upper(m.priority), m.type)

\* The tasks one line of TODO.md appends while the section is `section`.
TodoLineTasks(section, stripped) ==
    LET m == BacklogMatch(stripped)
    IN  IF StartsWith(stripped, SectionHeader) \/ section = completed_section
        THEN <<>>
        ELSE IF section = backlog_section
        THEN IF m.matched THEN <<TodoTask(m)>> ELSE <<>>
        ELSE IF section = in_progress_section
        THEN IF Contains(stripped, in_progress_placeholder)
             THEN <<>>
             ELSE IF m.matched
             THEN <<TodoTask(m)>>
             ELSE IF /\ StartsWith(stripped, SimpleHeader)
                     /\ ~StartsWith(stripped, BracketHeader)
                     /\ Strip(From(stripped, 5)) # <<>>
             THEN <<Task("TODO.md", Strip(From(stripped, 5)), None, None)>>
             ELSE <<>>
        ELSE <<>>

\* One pass of the loop of parse_todo_md over `line`.
TodoLine(state, line) ==
    LET stripped == Strip(line)
    IN  [section |-> IF StartsWith(stripped, SectionHeader)
                     THEN SectionOf(stripped)
                     ELSE state.section,
         tasks |-> state.tasks \o TodoLineTasks(state.section, stripped)]

RECURSIVE TodoLines(_, _)
TodoLines(state, lines) ==
    IF lines = <<>> THEN state
    ELSE TodoLines(TodoLine(state, Head(lines)), Tail(lines))

PlanLineTasks(stripped) ==
    LET m == UncheckedMatch(stripped)
    IN  IF m.matched THEN <<Task("PLAN.md", Strip(m.title), None, None)>>
        ELSE <<>>

ClaudeLineTasks(stripped) ==
    LET unchecked == UncheckedMatch(stripped)
        todo == TodoMatch(stripped)
    IN  IF unchecked.matched
        THEN <<Task("CLAUDE.md", Strip(unchecked.title), None, None)>>
        ELSE IF todo.matched
        THEN <<Task("CLAUDE.md", Strip(todo.title), None, None)>>
        ELSE <<>>

(* The files.  A file is missing, unreadable (read_text raises OSError) or   *)
(* holds lines, content.split("\n").                                        *)

Missing == [status |-> "missing", lines |-> <<>>]
Unreadable == [status |-> "unreadable", lines |-> <<>>]
File(lines) == [status |-> "ok", lines |-> lines]

\* what a parser does when read_text raises OSError
ReadRaises == [raised |-> TRUE, tasks |-> <<>>]
ReadFails == [raised |-> FALSE, tasks |-> <<>>]

RECURSIVE PlanLines(_)
PlanLines(lines) ==
    IF lines = <<>> THEN <<>>
    ELSE PlanLineTasks(Strip(Head(lines))) \o PlanLines(Tail(lines))

RECURSIVE ClaudeLines(_)
ClaudeLines(lines) ==
    IF lines = <<>> THEN <<>>
    ELSE ClaudeLineTasks(Strip(Head(lines))) \o ClaudeLines(Tail(lines))

Found(found) == [raised |-> FALSE, tasks |-> found]

parse_todo_md(file) ==
    IF file.status = "missing" THEN Found(<<>>)
    ELSE IF file.status = "unreadable" THEN ReadFails
    ELSE Found(TodoLines([section |-> None, tasks |-> <<>>], file.lines).tasks)

parse_plan_md(file) ==
    IF file.status = "missing" THEN Found(<<>>)
    ELSE IF file.status = "unreadable" THEN ReadFails
    ELSE Found(PlanLines(file.lines))

parse_claude_md(file) ==
    IF file.status = "missing" THEN Found(<<>>)
    ELSE IF file.status = "unreadable" THEN ReadFails
    ELSE Found(ClaudeLines(file.lines))

\* priority_order.get(t["priority"], 3), with every label ranked first
priority_order_first(priority) == 0

\* priority_order.get(t["priority"], 3)
priority_order_get(priority) ==
    IF priority = <<"H", "I", "G", "H">> THEN 0
    ELSE IF priority = <<"M", "E", "D">> THEN 1
    ELSE IF priority = <<"L", "O", "W">> THEN 2
    ELSE 3

\* list.sort(key=...) is stable: each task goes after the tasks whose key is
\* not greater than its own.
RECURSIVE Insert(_, _)
Insert(sorted, t) ==
    IF sorted = <<>> THEN <<t>>
    ELSE LET last == sorted[Len(sorted)]
         IN  IF priority_order_get(last.priority) <= priority_order_get(t.priority)
             THEN Append(sorted, t)
             ELSE Append(Insert(SubSeq(sorted, 1, Len(sorted) - 1), t), last)

RECURSIVE Sort(_, _)
Sort(sorted, rest) ==
    IF rest = <<>> THEN sorted ELSE Sort(Insert(sorted, Head(rest)), Tail(rest))

program == <<clock, scheduled, pc, dropped, probe, posted>>

DetectorFrame ==
    /\ UNCHANGED program /\ UNCHANGED tracker /\ UNCHANGED history
    /\ UNCHANGED workflow

----------------------------------------------------------------------------
(* parse_todo_md on one TODO.md, line by line.                              *)

MaxLines == 3

TodoLineSet ==
    {<<"#", "#", " ", "B", "a", "c", "k", "l", "o", "g">>,
     <<"#", "#", " ", "I", "n", " ", "P", "r", "o", "g", "r", "e", "s",
       "s">>,
     <<"#", "#", " ", "C", "o", "m", "p", "l", "e", "t", "e", "d">>,
     <<" ", " ", "#", "#", " ", "b", "a", "c", "k", "l", "o", "g">>,
     <<"#", "#", "#", " ", "[", "h", "i", "g", "h", "]", " ", "@", "f",
       "e", "a", "t", " ", "-", " ", "A", "d", "d", " ", "x">>,
     <<"#", "#", "#", " ", "@", "f", "i", "x", " ", "-", " ", "T">>,
     <<"#", "#", "#", " ", "[", "M", "E", "D", "]", " ", "-", " ", "T">>,
     <<"#", "#", "#", " ", "[", "M", "E", "D", "]", " ", "@", "f", "i",
       "x", " ", "T">>,
     <<"#", "#", "#", " ", "S", "i", "m", "p", "l", "e">>,
     <<"#", "#", "#", " ", " ", "[", "l", "o", "w", "]", " ", "@", "x",
       " ", "-", " ", "T">>,
     <<"_", "N", "o", " ", "t", "a", "s", "k", "s", " ", "c", "u", "r",
       "r", "e", "n", "t", "l", "y", " ", "i", "n", " ", "p", "r", "o",
       "g", "r", "e", "s", "s", "_">>}

RECURSIVE FilesOf(_, _)
FilesOf(lineset, n) ==
    IF n = 0 THEN {<<>>}
    ELSE LET shorter == FilesOf(lineset, n - 1)
         IN  shorter \cup {Append(f, l) : f \in shorter, l \in lineset}

TodoFiles ==
    {Missing, Unreadable} \cup {File(f) : f \in FilesOf(TodoLineSet, MaxLines) \ {<<>>}}

InitTodo ==
    /\ InitTracker /\ InitWorkflow /\ probe = NoProbe
    /\ md_files \in [todo : TodoFiles, plan : {Missing}, claude : {Missing}]
    /\ td_pc = "idle"
    /\ line_no = 0
    /\ current_section = None
    /\ tasks = <<>>

\* path.exists() is false, or read_text raises OSError
parse_todo_md_absent ==
    /\ td_pc = "idle"
    /\ md_files.todo.status # "ok"
    /\ td_pc' = IF parse_todo_md(md_files.todo).raised THEN "raised" ELSE "returned"
    /\ tasks' = parse_todo_md(md_files.todo).tasks
    /\ UNCHANGED <<md_files, line_no, current_section>>
    /\ DetectorFrame

parse_todo_md_read ==
    /\ td_pc = "idle"
    /\ md_files.todo.status = "ok"
    /\ td_pc' = "loop"
    /\ line_no' = 0
    /\ current_section' = None
    /\ tasks' = <<>>
    /\ UNCHANGED md_files
    /\ DetectorFrame

parse_todo_md_line ==
    /\ td_pc = "loop"
    /\ line_no < Len(md_files.todo.lines)
    /\ LET after == TodoLine([section |-> current_section, tasks |-> tasks],
                             md_files.todo.lines[line_no + 1])
       IN  /\ current_section' = after.section
           /\ tasks' = after.tasks
    /\ line_no' = line_no + 1
    /\ UNCHANGED <<md_files, td_pc>>
    /\ DetectorFrame

parse_todo_md_return ==
    /\ td_pc = "loop"
    /\ line_no = Len(md_files.todo.lines)
    /\ td_pc' = "returned"
    /\ UNCHANGED <<md_files, line_no, current_section, tasks>>
    /\ DetectorFrame

NextTodo ==
    \/ parse_todo_md_absent
    \/ parse_todo_md_read
    \/ parse_todo_md_line
    \/ parse_todo_md_return

SpecTodo == InitTodo /\ [][NextTodo]_vars

----------------------------------------------------------------------------
(* get_pending_tasks and has_pending_tasks on one directory.                *)

MaxTasks == 3

TaskLineSet ==
    {<<"#", "#", "#", " ", "[", "L", "O", "W", "]", " ", "@", "a", " ",
       "-", " ", "x">>,
     <<"#", "#", "#", " ", "[", "h", "i", "g", "h", "]", " ", "@", "a",
       " ", "-", " ", "y">>,
     <<"#", "#", "#", " ", "[", "M", "E", "D", "]", " ", "@", "a", " ",
       "-", " ", "z">>,
     <<"#", "#", "#", " ", "[", "U", "R", "G", "E", "N", "T", "]", " ",
       "@", "a", " ", "-", " ", "u">>,
     <<"#", "#", "#", " ", "[", "H", "I", "G", "H", "]", " ", "@", "b",
       " ", "-", " ", "w">>,
     <<"#", "#", "#", " ", "v">>}

TaskTodoFiles ==
    {Missing, Unreadable}
        \cup {File(<<<<"#", "#", " ", "I", "n", " ", "P", "r", "o", "g", "r", "e", "s", "s">>>> \o f) : f \in FilesOf(TaskLineSet, MaxTasks)}

PlanFiles ==
    {Missing, Unreadable,
     File(<<<<"#", " ", "P", "l", "a", "n">>, <<"-", " ", "[", " ", "]", " ", "p">>, <<"-", " ", "[", "x", "]", " ", "d">>>>)}

ClaudeFiles ==
    {Missing, Unreadable,
     File(<<<<"T", "O", "D", "O", ":", " ", "c">>, <<"-", " ", "[", " ", "]", " ", "e">>>>)}

InitTasks ==
    /\ InitTracker /\ InitWorkflow /\ probe = NoProbe
    /\ md_files \in [todo : TaskTodoFiles, plan : PlanFiles, claude : ClaudeFiles]
    /\ td_pc = "idle"
    /\ line_no = 0
    /\ current_section = None
    /\ tasks = <<>>

\* tasks.extend(parsed) and on to the next statement, or the exception
Extend(parsed, next) ==
    /\ IF parsed.raised
       THEN td_pc' = "raised" /\ UNCHANGED tasks
       ELSE td_pc' = next /\ tasks' = tasks \o parsed.tasks
    /\ UNCHANGED <<md_files, line_no, current_section>>
    /\ DetectorFrame

get_pending_tasks_todo ==
    /\ td_pc = "idle"
    /\ Extend(parse_todo_md(md_files.todo), "plan")

get_pending_tasks_plan ==
    /\ td_pc = "plan"
    /\ Extend(parse_plan_md(md_files.plan), "claude")

get_pending_tasks_claude ==
    /\ td_pc = "claude"
    /\ Extend(parse_claude_md(md_files.claude), "sort")

get_pending_tasks_sort ==
    /\ td_pc = "sort"
    /\ tasks' = Sort(<<>>, tasks)
    /\ td_pc' = "sorted"
    /\ UNCHANGED <<md_files, line_no, current_section>>
    /\ DetectorFrame

\* len(get_pending_tasks(base_dir)) > 0
has_pending_tasks ==
    /\ td_pc = "sorted"
    /\ td_pc' = IF Len(tasks) > 0 THEN "True" ELSE "False"
    /\ UNCHANGED <<md_files, line_no, current_section, tasks>>
    /\ DetectorFrame

NextTasks ==
    \/ get_pending_tasks_todo
    \/ get_pending_tasks_plan
    \/ get_pending_tasks_claude
    \/ get_pending_tasks_sort
    \/ has_pending_tasks

SpecTasks == InitTasks /\ [][NextTasks]_vars

----------------------------------------------------------------------------
(* One file: the watcher delivers events for one path only, and up to       *)
(* MaxProbeQueue calls wait on the event loop.                              *)

InitOne ==
    /\ InitTracker
    /\ InitWorkflow
    /\ InitDetector
    /\ probe \in [src_path : {PathA, PathB}, is_directory : {FALSE}]

NextOne ==
    \/ Tick
    \/ dispatch
    \/ add_change
    \/ get_ready_changes_collect
    \/ get_ready_changes_remove
    \/ monitor_loop_rest

SpecOne == InitOne /\ [][NextOne]_vars

\* The same, with the scheduling the claim of eventual delivery assumes: time
\* advances, and the polling loop keeps running (each step of get_ready_changes
\* and each handling of a batch is followed by the next one).  Nothing is
\* assumed of the watcher.
Fairness ==
    /\ WF_vars(Tick)
    /\ WF_vars(get_ready_changes_collect)
    /\ WF_vars(get_ready_changes_remove)
    /\ WF_vars(monitor_loop_rest)

SpecLive == InitOne /\ [][NextOne]_vars /\ Fairness

\* FileChangeHandler overrides on_modified and on_created only.  For the
\* other events of the watched file the handler inherited from
\* FileSystemEventHandler runs, which does nothing; `dropped` keeps the kind
\* of the event and whether the path was pending when it came.
WhilePending(kind) ==
    IF probe.src_path \in Keys(pending_changes) THEN kind \o ", pending" ELSE kind

Unhandled(kind) ==
    /\ OneFile
    /\ dropped' = WhilePending(kind)
    /\ UNCHANGED <<clock, scheduled, pc, probe, posted>>
    /\ UNCHANGED tracker
    /\ UNCHANGED history
    /\ UNCHANGED workflow
    /\ UNCHANGED detector

\* a handler that forgets the deleted file
on_deleted_forgets ==
    /\ OneFile
    /\ LockFree
    /\ dropped' = WhilePending("deleted")
    /\ pending_changes' = Pop(pending_changes, probe.src_path)
    /\ UNCHANGED <<clock, scheduled, pc, probe, posted>>
    /\ UNCHANGED <<lock, now, paths_to_remove, ready_changes>>
    /\ UNCHANGED history
    /\ UNCHANGED workflow
    /\ UNCHANGED detector

on_deleted == Unhandled("deleted")

on_moved == Unhandled("moved")

NextEvents ==
    \/ Tick
    \/ dispatch
    \/ on_deleted
    \/ on_moved
    \/ add_change
    \/ get_ready_changes_collect
    \/ get_ready_changes_remove
    \/ monitor_loop_rest

SpecEvents == InitOne /\ [][NextEvents]_vars

\* One file, with the handling of each batch: the polling loop, the analysis,
\* the prompt and the fixes.  The loop is not interrupted.
NextBatch ==
    \/ Tick
    \/ dispatch
    \/ ~Blocked /\ add_change
    \/ get_ready_changes_collect
    \/ get_ready_changes_remove
    \/ monitor_loop_filter
    \/ analyze_changes_query
    \/ analyze_changes_except
    \/ get_user_approval
    \/ apply_fixes_query
    \/ apply_fixes_except
    \/ monitor_loop_sleep

SpecBatch == InitOne /\ [][NextBatch]_vars

----------------------------------------------------------------------------
Next ==
    \/ Tick
    \/ on_modified
    \/ on_created
    \/ add_change
    \/ get_ready_changes_collect
    \/ get_ready_changes_remove
    \/ monitor_loop_rest

Spec == Init /\ [][Next]_vars

----------------------------------------------------------------------------
(* Properties of the ChangeTracker *)

\* the step on which get_ready_changes returns its list
DrainReturns == pc = "drain" /\ pc' = "handle"

\* the step on which an add_change for path is applied
AddApplied(path) ==
    /\ scheduled # <<>>
    /\ Head(scheduled) = path
    /\ scheduled' = Tail(scheduled)

Occurrences(s, x) == Cardinality({i \in 1..Len(s) : s[i] = x})

\* the paths recorded and not returned since
Owed == DOMAIN cycleStart

\* a step that changes the table or the record of the add_change calls
TableStep ==
    <<pending_changes, lastAdd, cycleStart>>'
       # <<pending_changes, lastAdd, cycleStart>>

\* pending_changes holds the owed paths, each once, each with the time of its
\* latest add_change
TableIsOwed ==
    /\ Keys(pending_changes) = Owed
    /\ Len(pending_changes) = Cardinality(Keys(pending_changes))
    /\ \A p \in Keys(pending_changes) :
          Timestamp(pending_changes, p) = lastAdd[p]

\* C1. No early delivery: a get_ready_changes that reads the time now less
\* than DEBOUNCE_SECONDS after the latest add_change of a path does not return
\* the path, and the path stays in pending_changes.
C1_NoEarlyDelivery ==
    [][DrainReturns =>
         \A p \in DOMAIN lastAdd :
            now - lastAdd[p] < DEBOUNCE_SECONDS =>
               /\ p \notin Range(ready_changes')
               /\ p \in Keys(pending_changes')]_vars

\* a drain has returned and passed over a path recorded less than a settle
\* window before it
C1_Witness ==
    /\ pc = "handle"
    /\ \E p \in Keys(pending_changes) :
          /\ lastAdd[p] <= now
          /\ now - lastAdd[p] < DEBOUNCE_SECONDS
          /\ p \notin Range(ready_changes)

\* C2. Delivery once settled: a path recorded last at T and not returned
\* since is returned, once, by the first get_ready_changes that reads a time
\* now >= T + DEBOUNCE_SECONDS, and that call removes it from pending_changes.
C2_DeliveryOnceSettled ==
    [][DrainReturns =>
         \A p \in Owed :
            now >= lastAdd[p] + DEBOUNCE_SECONDS =>
               /\ Occurrences(ready_changes', p) = 1
               /\ p \notin Keys(pending_changes')]_vars

\* a drain has returned a path exactly one settle window after its record
C2_Witness ==
    /\ pc = "handle"
    /\ \E p \in Range(ready_changes) :
          /\ now = lastAdd[p] + DEBOUNCE_SECONDS
          /\ p \notin Keys(pending_changes)

\* C3. At most once: a path that a get_ready_changes returned is returned by
\* no later one unless an add_change of it was applied in between.
C3_AtMostOnce ==
    [][DrainReturns =>
         \A p \in Range(ready_changes') :
            ~(Count(returned, p) > 0 /\ p \notin Owed)]_vars

\* a path was returned, recorded again and returned again, and the drain
\* after that has returned without it
C3_Witness ==
    /\ pc = "handle"
    /\ \E p \in DOMAIN returned :
          /\ returned[p] = 2
          /\ p \notin Range(ready_changes)
          /\ p \notin Owed

\* C4. Last writer wins: after add_change of a path at T1 and again at
\* T2 > T1 with no drain of it in between, pending_changes holds one entry
\* for the path, with T2, and a get_ready_changes that reads a time in
\* [T1 + DEBOUNCE_SECONDS, T2 + DEBOUNCE_SECONDS) does not return the path.
C4_LastWriterWins ==
    [][/\ TableStep =>
             \A p \in Owed' :
                /\ Occurrences([i \in 1..Len(pending_changes') |->
                                  pending_changes'[i].path], p) = 1
                /\ Timestamp(pending_changes', p) = lastAdd'[p]
       /\ DrainReturns =>
             \A p \in Owed :
                (/\ cycleStart[p] < lastAdd[p]
                 /\ cycleStart[p] + DEBOUNCE_SECONDS <= now
                 /\ now < lastAdd[p] + DEBOUNCE_SECONDS)
                => p \notin Range(ready_changes')]_vars

\* a drain inside the window of the first record and before the window of
\* the second has returned without the path
C4_Witness ==
    /\ pc = "handle"
    /\ \E p \in Owed :
          /\ cycleStart[p] < lastAdd[p]
          /\ cycleStart[p] + DEBOUNCE_SECONDS <= now
          /\ now < lastAdd[p] + DEBOUNCE_SECONDS
          /\ lastAdd[p] <= now
          /\ p \notin Range(ready_changes)
          /\ Timestamp(pending_changes, p) = lastAdd[p]

\* C5. No loss, no duplicate: whatever the interleaving of the scheduled
\* add_change calls with the polling loop's get_ready_changes calls, only
\* recorded paths are returned, no list holds a path twice, every recorded
\* path has been returned once for each of its settle cycles but the one it
\* is pending in, and when nothing is pending the paths returned are exactly
\* the paths recorded.
C5_NoLossNoDuplicate ==
    /\ DOMAIN returned \subseteq DOMAIN lastAdd
    /\ \A p \in Range(ready_changes) : Occurrences(ready_changes, p) = 1
    /\ \A p \in DOMAIN lastAdd :
          Count(returned, p)
          + (IF p \in Keys(pending_changes) THEN 1 ELSE 0) = Count(cycles, p)
    /\ pending_changes = <<>> => DOMAIN returned = DOMAIN lastAdd

\* two paths were recorded, one of them through two settle cycles, and both
\* have been returned for every cycle
C5_Witness ==
    /\ pending_changes = <<>>
    /\ Cardinality(DOMAIN lastAdd) = 2
    /\ \E p \in DOMAIN returned : returned[p] = 2 /\ cycles[p] = 2
    /\ \A p \in DOMAIN lastAdd : Count(returned, p) = Count(cycles, p)

\* C6. No partial processing: no add_change is applied between a pass's
\* collection of its candidates and their removal; a path the pass returns
\* leaves the table with the timestamp of its latest add_change, which was
\* settled when the pass read the time; and a path the pass does not return
\* keeps the timestamp of its latest add_change.
C6_NoPartialProcessing ==
    /\ [][pc = "drain" /\ pc' = "drain" =>
             /\ pending_changes' = pending_changes
             /\ lastAdd' = lastAdd]_vars
    /\ [][DrainReturns =>
             /\ \A p \in Range(ready_changes') :
                   /\ p \in Keys(pending_changes)
                   /\ Timestamp(pending_changes, p) = lastAdd[p]
                   /\ now - Timestamp(pending_changes, p) >= DEBOUNCE_SECONDS
             /\ \A p \in Owed \ Range(ready_changes') :
                   /\ p \in Keys(pending_changes')
                   /\ Timestamp(pending_changes', p) = lastAdd[p]]_vars

\* an add_change of a path is scheduled while a pass that collected this path
\* has not yet removed it
C6_Witness ==
    /\ pc = "drain"
    /\ scheduled # <<>>
    /\ Head(scheduled) \in Range(paths_to_remove)
    /\ Head(scheduled) \in Keys(pending_changes)

\* C7. PendingTable invariant and per-path state machine: a path is a key of
\* pending_changes exactly when an add_change of it was applied since it was
\* last returned (or since the start), each key occurs once, and its value is
\* the time of its latest add_change; a key appears or changes its timestamp
\* only on an add_change of it, which writes the current time, and disappears
\* only on a drain that returns it.
C7_PendingTable ==
    /\ TableIsOwed
    /\ [][TableStep =>
             /\ TableIsOwed'
             /\ \A p \in Keys(pending_changes) \cup Keys(pending_changes') :
                   /\ (/\ p \notin Keys(pending_changes)
                       /\ p \in Keys(pending_changes'))
                      => /\ AddApplied(p)
                         /\ Timestamp(pending_changes', p) = clock
                   /\ (/\ p \in Keys(pending_changes)
                       /\ p \in Keys(pending_changes')
                       /\ Timestamp(pending_changes', p)
                             # Timestamp(pending_changes, p))
                      => /\ AddApplied(p)
                         /\ Timestamp(pending_changes', p) = clock
                   /\ (/\ p \in Keys(pending_changes)
                       /\ p \notin Keys(pending_changes'))
                      => /\ DrainReturns
                         /\ p \in Range(ready_changes')]_vars

\* a path in its second pending period, its timestamp refreshed by a repeated
\* add_change
C7_Witness ==
    \E p \in Keys(pending_changes) :
        /\ Count(returned, p) = 1
        /\ cycleStart[p] < lastAdd[p]
        /\ Timestamp(pending_changes, p) = lastAdd[p]

\* C8. Drain frame: get_ready_changes changes nothing before its removal
\* loop; it returns, each once, exactly the keys whose timestamp lies at
\* least DEBOUNCE_SECONDS before the time it read, removes exactly those, and
\* leaves every other entry with its timestamp; with no such key it returns
\* the empty list and pending_changes is unchanged.
C8_DrainFrame ==
    /\ [][pc = "poll" /\ pc' = "drain" =>
             pending_changes' = pending_changes]_vars
    /\ [][DrainReturns =>
             LET settled == {p \in Keys(pending_changes) :
                               now - Timestamp(pending_changes, p)
                                  >= DEBOUNCE_SECONDS}
             IN  /\ Range(ready_changes') = settled
                 /\ Len(ready_changes') = Cardinality(settled)
                 /\ Keys(pending_changes') = Keys(pending_changes) \ settled
                 /\ \A p \in Keys(pending_changes') :
                       Timestamp(pending_changes', p)
                          = Timestamp(pending_changes, p)
                 /\ settled = {} =>
                       /\ ready_changes' = <<>>
                       /\ pending_changes' = pending_changes]_vars

\* a drain has returned one path and left an unsettled one in the table
C8_Witness ==
    /\ pc = "handle"
    /\ ready_changes # <<>>
    /\ \E p \in Keys(pending_changes) :
          /\ lastAdd[p] <= now
          /\ now - Timestamp(pending_changes, p) < DEBOUNCE_SECONDS

\* the list get_ready_changes returned holds exactly the paths of S, each once
Returns(S) ==
    /\ Range(ready_changes) = S
    /\ Len(ready_changes) = Cardinality(S)

\* C9 as stated. After add_change("a") at 0 s and add_change("b") at 0.1 s and
\* no other record, get_ready_changes returns nothing at 1.0 s, exactly "a"
\* at 2.1 s and exactly "b" at 2.2 s.
C9_EndToEndAsStated ==
    pc = "handle" =>
       /\ e2e = 3 => Returns({})
       /\ e2e = 4 => Returns({PathA})
       /\ e2e = 5 => Returns({PathB})

\* C9, amended. After add_change("a") at 0 s and add_change("b") at 0.1 s and
\* no other record, get_ready_changes returns nothing at 1.0 s, exactly "a"
\* and "b" at 2.1 s (2.1 - 0.1 >= 2.0) and nothing at 2.2 s.
C9_EndToEnd ==
    pc = "handle" =>
       /\ e2e = 3 => Returns({})
       /\ e2e = 4 => Returns({PathA, PathB})
       /\ e2e = 5 => Returns({})

\* the scenario has run to the return of its third drain
C9_Witness ==
    /\ pc = "handle"
    /\ e2e = 5
    /\ now = 22

----------------------------------------------------------------------------
(* Properties of the FileChangeHandler *)

IgnoredNames ==
    { <<".", "g", "i", "t">>,
      <<"_", "_", "p", "y", "c", "a", "c", "h", "e", "_", "_">>,
      <<"v", "e", "n", "v">>,
      <<".", "v", "e", "n", "v">>,
      <<"n", "o", "d", "e", "_", "m", "o", "d", "u", "l", "e", "s">> }

IgnoredSuffixes == { <<".", "p", "y", "c">>, <<".", "p", "y", "o">> }

\* a path with a segment that is an ignored name, or that ends with an
\* ignored suffix
MustBeIgnored(path) ==
    \/ \E i \in 1..Len(Parts(path)) : Parts(path)[i] \in IgnoredNames
    \/ \E suffix \in IgnoredSuffixes : EndsWith(path, suffix)

MustBeIgnoredPaths == { path \in EventPaths : MustBeIgnored(path) }

\* C10. Ignored segments are never recorded: no path with a segment equal to
\* .git, __pycache__, venv, .venv or node_modules, and no path that ends with
\* .pyc or .pyo, is ever scheduled for add_change, a key of pending_changes,
\* or in a list get_ready_changes collects or returns.
C10_IgnoredNeverRecorded ==
    (Range(scheduled) \cup Keys(pending_changes)
       \cup Range(paths_to_remove) \cup Range(ready_changes))
    \cap MustBeIgnoredPaths = {}

\* the handler has dropped an event for an ignored path while another path
\* went through to the table
C10_Witness ==
    /\ dropped = "ignored"
    /\ scheduled = <<>>
    /\ pending_changes # <<>>
    /\ Cardinality(MustBeIgnoredPaths) = 7

\* C11. Matching is by exact segment or exact suffix: a non-directory path
\* is dropped as ignored only when one of its segments is an ignored name or
\* it ends with .pyc or .pyo; a path in which an ignored name is only a part
\* of a longer segment (its start, its middle or its end) is forwarded.
C11_ExactMatchOnly ==
    dropped = "ignored" => MustBeIgnored(probe.src_path)

\* a step of the event loop that runs the oldest scheduled add_change
AddRuns == scheduled # <<>> /\ scheduled' = Tail(scheduled)

\* what the handler does with the event probe, given whether the ignore rule
\* matches its path
HandlerFrame(matches) ==
    IF probe.is_directory \/ matches
    THEN UNCHANGED <<scheduled, pending_changes, lock>>
    ELSE /\ scheduled' = Append(scheduled, probe.src_path)
         /\ UNCHANGED <<pending_changes, lock>>

\* C12. Event filtering frame: an on_modified / on_created event that is for
\* a directory, or whose path has an ignored segment or an ignored suffix, is
\* dropped with nothing scheduled and pending_changes unchanged; every other
\* event schedules exactly one add_change, for exactly its path, and leaves
\* pending_changes to that add_change.
C12_FilterFrame ==
    [][~AddRuns => HandlerFrame(MustBeIgnored(probe.src_path))]_vars

----------------------------------------------------------------------------
(* Properties of the lock *)

\* a step of a watcher thread: the handler forwards or drops an event
HandlerStep == Len(scheduled') > Len(scheduled) \/ dropped' # dropped

\* C13. Mutual exclusion: the lock is held exactly while get_ready_changes is
\* between its collection and its return; while it is held no add_change
\* body runs and the only step monitor_loop takes is that return, which
\* releases the lock, so nothing is awaited with the lock held; the lock
\* changes hands only at the entry and the return of get_ready_changes; and
\* a step of a watcher thread leaves pending_changes and the lock alone.
C13_MutualExclusion ==
    /\ lock = "free" /\ pc # "drain"
    /\ [][/\ lock # "free" => ~AddRuns
          /\ lock # "free" /\ pc' # pc => DrainReturns /\ lock' = "free"
          /\ lock' # lock => pc' # pc /\ (lock' = "get_ready_changes" <=> pc' = "drain")
          /\ HandlerStep => UNCHANGED <<pending_changes, lock>>]_vars

\* get_ready_changes holds the lock, and an add_change for a path it has not
\* collected waits on the event loop
C13_Witness ==
    /\ lock = "get_ready_changes"
    /\ scheduled # <<>>
    /\ Head(scheduled) \notin Range(paths_to_remove)
    /\ paths_to_remove # <<>>

----------------------------------------------------------------------------
(* Properties of monitor_loop and main *)

\* monitor_loop calls get_ready_changes
DrainCalled == pc = "poll" /\ pc' = "drain"

\* analyze_changes is called
AnalysisStarts == analysis' = "running" /\ analysis # "running"

\* what may end monitor_loop: Ctrl+C or the cancellation of main's task
Interrupts == {"KeyboardInterrupt", "CancelledError"}

\* C14. Strictly sequential batches: get_ready_changes is called, and an
\* analysis is started, only when no analyze_changes call is in progress;
\* and while one is in progress (its query, its prompt, its apply_fixes)
\* monitor_loop is inside it.
C14_SequentialBatches ==
    /\ ~in_progress
    /\ [][/\ DrainCalled => ~in_progress
          /\ AnalysisStarts => ~in_progress /\ pc = "handle"
          /\ in_progress' => pc' \in {"analyze", "approve", "fix"}]_vars

\* apply_fixes runs for a batch while the table holds a settled change that
\* no drain has taken yet
C14_Witness ==
    /\ in_progress
    /\ pc = "fix"
    /\ \E i \in 1..Len(pending_changes) :
          Settled(clock, pending_changes[i].timestamp)

\* monitor_loop passes from the drained list to analyze_changes or the sleep
FilterStep == pc = "handle" /\ pc' # "handle" /\ ended' = "no"

\* C15. Vanished files: the list given to analyze_changes holds exactly the
\* drained paths that exist, once each; analyze_changes is called exactly
\* when that list is not empty, and otherwise the loop goes to its sleep; no
\* analysis ever starts on an empty list.
C15_VanishedFiles ==
    [][/\ FilterStep =>
          /\ Range(existing_files') = Range(ready_changes) \cap on_disk'
          /\ Len(existing_files') = Cardinality(Range(existing_files'))
          /\ (existing_files' # <<>> => pc' = "analyze" /\ AnalysisStarts)
          /\ (existing_files' = <<>> =>
                 pc' = "sleep" /\ ~in_progress' /\ analysis' = "none")
       /\ AnalysisStarts => FilterStep /\ existing_files' # <<>>
       /\ in_progress' => existing_files' # <<>>]_vars

\* "a" and "b" were drained together at 2.1 s, "a" is gone from the disk and
\* the analysis runs on "b" alone
C15_Witness ==
    /\ pc = "analyze"
    /\ clock = 21
    /\ Count(returned, PathA) = 1
    /\ Count(returned, PathB) = 1
    /\ existing_files = <<PathB>>
    /\ on_disk = {PathB}

\* C16. An analysis failure is not fatal: when the query of analyze_changes
\* raises, the call returns to the loop with no prompt and no fix; when the
\* query of apply_fixes raises, that call returns too; a query is left only
\* for the next stage, for the sleep or by an interrupt; and after the sleep
\* the loop is at its next get_ready_changes call.
C16_AnalysisFailureNotFatal ==
    [][/\ analysis' = "failed" =>
            /\ pc' = "sleep"
            /\ main_pc' = "monitor" /\ ended' = "no"
            /\ approval' = "none" /\ fix' = "none"
       /\ fix' = "failed" =>
            /\ pc' = "sleep"
            /\ main_pc' = "monitor" /\ ended' = "no"
       /\ pc = "analyze" /\ pc' # pc =>
            pc' \in {"approve", "sleep"} \/ ended' \in Interrupts
       /\ pc = "fix" /\ pc' # pc => pc' = "sleep" \/ ended' \in Interrupts
       /\ pc = "sleep" /\ pc' # pc => pc' = "poll" \/ ended' \in Interrupts
       /\ pc = "poll" /\ pc' # pc => DrainCalled \/ ended' \in Interrupts]_vars

\* the query of analyze_changes has failed, the loop is in its sleep and the
\* table still holds a change for a later poll
C16_Witness ==
    /\ analysis = "failed"
    /\ pc = "sleep"
    /\ main_pc = "monitor"
    /\ pending_changes # <<>>

\* C17. Error containment: no error raised while a batch is handled (by the
\* existence check, the analysis, the prompt or the fix) ends monitor_loop;
\* only an interrupt does.
C17_ErrorsContained == ended \in {"no"} \cup Interrupts

\* C18. Approval gate: apply_fixes runs, or has run, in a cycle only if in
\* that cycle the analysis query returned without error and
\* get_user_approval returned True.
C18_ApprovalGate ==
    (pc = "fix" \/ fix # "none") => analysis = "ok" /\ approval = "yes"

\* apply_fixes runs on a batch of two files after the user's yes
C18_Witness ==
    /\ pc = "fix"
    /\ fix = "running"
    /\ approval = "yes"
    /\ existing_files = <<PathA, PathB>>

\* the lines that count as yes and as no
ExpectedYes ==
    { <<"y">>, <<" ", "Y", "E", "S">>, <<"Y", "e", "s", "\t">> }

ExpectedNo == { <<"n">>, <<"N", "o", " ">> }

\* C19. The approval prompt never defaults: while the loop is in
\* get_user_approval or has just left it, True was returned exactly when the
\* last line read is a yes, False exactly when it is a no, and after any
\* other line (the empty one included) nothing is returned and the prompt is
\* issued again.
C19_NeverDefaults ==
    [][pc = "approve" /\ ended' = "no" =>
          /\ approval' = "yes" <=> response' \in ExpectedYes
          /\ approval' = "no" <=> response' \in ExpectedNo
          /\ response' \notin ExpectedYes \cup ExpectedNo =>
                pc' = "approve" /\ approval' = "none" /\ fix' = "none"
          /\ pc' # "approve" => response' \in ExpectedYes \cup ExpectedNo]_vars

\* "nope" has been read and the prompt is issued again
C19_Witness ==
    /\ pc = "approve"
    /\ response = <<"n", "o", "p", "e">>
    /\ approval = "none"

\* C20. Shutdown releases the watch: whatever ends monitor_loop, main goes to
\* its finally clause; main is over only with the observer stopped and then
\* joined; and once the observer is stopped monitor_loop takes no step: no
\* get_ready_changes call and no analysis is started.
C20_ShutdownReleasesWatch ==
    /\ observer = "started" /\ main_pc = "monitor"
    /\ [][/\ ended' # "no" /\ ended = "no" =>
                main_pc' = "stop" /\ observer' = "started"
          /\ main_pc' = "done" => observer' = "joined"
          /\ observer' = "joined" => observer \in {"stopped", "joined"}
          /\ observer # "started" =>
                pc' = pc /\ ~DrainCalled /\ ~AnalysisStarts]_vars

\* an OSError of the existence check ended monitor_loop; main has stopped
\* and joined the observer and is over, with a change left in the table
C20_Witness ==
    /\ main_pc = "done"
    /\ observer = "joined"
    /\ ended = "OSError"
    /\ pending_changes # <<>>

----------------------------------------------------------------------------
(* Properties of the order of deliveries *)

\* the event loop runs one scheduled add_change
CallRuns == Len(scheduled') < Len(scheduled)

\* C21. Same-path record order: the calls scheduled for one path are applied
\* in the order of their deliveries: a call that is applied was delivered no
\* earlier than the call that wrote the timestamp before it, and no later
\* than any call that still waits; so once no call waits, the stored
\* timestamp is the one written by the call of the last delivery.
C21_DeliveryOrder ==
    /\ [][CallRuns =>
             /\ posted'.writer >= posted.writer
             /\ \A j \in 1..Len(posted'.queue) :
                   posted'.writer <= posted'.queue[j].at
             /\ Timestamp(pending_changes', probe.src_path) = clock]_vars
    /\ [][CallRuns /\ scheduled' = <<>> =>
             posted'.writer = posted'.delivered]_vars

\* two calls for the path waited together: the one delivered at 1.0 s was
\* applied at 2.2 s, the one delivered at 2.1 s still waits
C21_Witness ==
    /\ clock = 22
    /\ Len(scheduled) = 1
    /\ posted.queue[1].at = 21
    /\ posted.writer = 10
    /\ Count(lastAdd, probe.src_path) = 22

----------------------------------------------------------------------------
(* parse_todo_md, read against the lines of the file themselves.            *)

LineRead == td_pc = "loop" /\ line_no' = line_no + 1
ThisLine == Strip(md_files.todo.lines[line_no + 1])

IsSectionLine(line) == StartsWith(Strip(line), SectionHeader)

\* the last line among the first k that starts with "## ", 0 if there is none
RECURSIVE LastSectionLine(_, _)
LastSectionLine(lines, k) ==
    IF k = 0 THEN 0
    ELSE IF IsSectionLine(lines[k]) THEN k
    ELSE LastSectionLine(lines, k - 1)

\* the text after "## " of the header the first k lines end under
SectionName(lines, k) ==
    LET h == LastSectionLine(lines, k)
    IN  IF h = 0 THEN None ELSE Strip(From(Strip(lines[h]), 4))

\* Section names are compared without regard to case; the In Progress
\* section is also written in_progress.
NamesBacklog(name) == Lower(name) = <<"b", "a", "c", "k", "l", "o", "g">>
NamesCompleted(name) == Lower(name) = <<"c", "o", "m", "p", "l", "e", "t", "e", "d">>
NamesInProgress(name) ==
    \/ name = <<"I", "n", " ", "P", "r", "o", "g", "r", "e", "s", "s">>
    \/ Lower(name) = <<"i", "n", "_", "p", "r", "o", "g", "r", "e", "s", "s">>

Section == SectionName(md_files.todo.lines, line_no)

NoLowerCase(s) == \A i \in 1..Len(s) : \A j \in DOMAIN LowerCase : s[i] # LowerCase[j]

\* C23: the current section is the one named by the most recent line
\* starting with "## " (None before the first); a line read in the Completed
\* section adds no task whatever its form; a full task header adds a task
\* only in the Backlog or In Progress section, and then with its priority
\* in upper case.
C23_SectionTracking ==
    /\ td_pc = "loop" =>
           /\ (current_section = None) = (LastSectionLine(md_files.todo.lines, line_no) = 0)
           /\ NamesCompleted(Section) = (current_section = completed_section)
           /\ NamesBacklog(Section) = (current_section = backlog_section)
           /\ NamesInProgress(Section) = (current_section = in_progress_section)
    /\ [][LineRead /\ NamesCompleted(Section) => tasks' = tasks]_vars
    /\ [][LineRead /\ BacklogMatch(ThisLine).matched /\ tasks' # tasks =>
               /\ NamesBacklog(Section) \/ NamesInProgress(Section)
               /\ Len(tasks') = Len(tasks) + 1
               /\ tasks'[Len(tasks')].priority = Upper(BacklogMatch(ThisLine).priority)
               /\ NoLowerCase(tasks'[Len(tasks')].priority)]_vars

\* A lower-case full header under an indented "## backlog" has produced a
\* HIGH task, and the Completed header has been read after it.
C23_Witness ==
    /\ td_pc = "loop" /\ line_no = 3
    /\ md_files.todo.lines[1] = <<" ", " ", "#", "#", " ", "b", "a", "c", "k", "l", "o", "g">>
    /\ md_files.todo.lines[3] = <<"#", "#", " ", "C", "o", "m", "p", "l", "e", "t", "e", "d">>
    /\ current_section = completed_section
    /\ Len(tasks) = 1
    /\ tasks[1].priority = <<"H", "I", "G", "H">>

LacksPriority(s) == ~(Contains(s, <<"[">>) /\ Contains(s, <<"]">>))
LacksType(s) == ~Contains(s, <<"@">>)
LacksSeparator(s) ==
    ~\E i \in 2..(Len(s) - 1) : IsSpace(s[i - 1]) /\ s[i] = "-" /\ IsSpace(s[i + 1])

Malformed(s) ==
    /\ StartsWith(s, <<"#", "#", "#">>)
    /\ LacksPriority(s) \/ LacksType(s) \/ LacksSeparator(s)

SimpleTask(s) == Task("TODO.md", Strip(From(s, 5)), None, None)

BacklogIgnoresMalformed ==
    [][LineRead /\ NamesBacklog(Section) /\ Malformed(ThisLine) => tasks' = tasks]_vars

PlaceholderIgnored ==
    [][LineRead /\ ThisLine = in_progress_placeholder => tasks' = tasks]_vars

\* C25 as stated: in the In Progress section every "### " header that does
\* not start with "### [" adds a task with the header text as title and
\* neither priority nor type.
C25_AsStated ==
    /\ BacklogIgnoresMalformed
    /\ PlaceholderIgnored
    /\ [][/\ LineRead /\ NamesInProgress(Section)
          /\ StartsWith(ThisLine, <<"#", "#", "#", " ">>)
          /\ ~StartsWith(ThisLine, <<"#", "#", "#", " ", "[">>)
          => tasks' = Append(tasks, SimpleTask(ThisLine))]_vars

\* C25: in the Backlog section a "###" header lacking the bracketed
\* priority, the @type or the " - " separator adds no task; the placeholder
\* line adds no task; in the In Progress section a "### " header that does
\* not start with "### [", is not a full task header (more than one blank
\* may follow "###") and does not hold the placeholder adds a task with the
\* header text as title and neither priority nor type.
C25_MalformedIgnored ==
    /\ BacklogIgnoresMalformed
    /\ PlaceholderIgnored
    /\ [][/\ LineRead /\ NamesInProgress(Section)
          /\ StartsWith(ThisLine, <<"#", "#", "#", " ">>)
          /\ ~StartsWith(ThisLine, <<"#", "#", "#", " ", "[">>)
          /\ ~BacklogMatch(ThisLine).matched
          /\ ~Contains(ThisLine, in_progress_placeholder)
          => tasks' = Append(tasks, SimpleTask(ThisLine))]_vars

\* In Progress: the simple header has given a task without priority, and the
\* placeholder read after it has given none.
C25_Witness ==
    /\ td_pc = "loop" /\ line_no = 3
    /\ NamesInProgress(SectionName(md_files.todo.lines, 1))
    /\ md_files.todo.lines[2] = <<"#", "#", "#", " ", "S", "i", "m", "p", "l", "e">>
    /\ md_files.todo.lines[3] = in_progress_placeholder
    /\ tasks = <<Task("TODO.md", <<"S", "i", "m", "p", "l", "e">>, None, None)>>

----------------------------------------------------------------------------
(* get_pending_tasks, read against the three parsers.                       *)

Together ==
    parse_todo_md(md_files.todo).tasks
        \o parse_plan_md(md_files.plan).tasks
        \o parse_claude_md(md_files.claude).tasks

Sorted == td_pc \in {"sorted", "True", "False"}

\* HIGH, MED, LOW are ranks 1, 2, 3; no priority and any other label rank 4
Ranked == <<<<"H", "I", "G", "H">>, <<"M", "E", "D">>, <<"L", "O", "W">>>>
RankOf(t) ==
    IF \E r \in DOMAIN Ranked : Ranked[r] = t.priority
    THEN CHOOSE r \in DOMAIN Ranked : Ranked[r] = t.priority
    ELSE 4

RECURSIVE OfRank(_, _)
OfRank(list, r) ==
    IF list = <<>> THEN <<>>
    ELSE IF RankOf(Head(list)) = r THEN <<Head(list)>> \o OfRank(Tail(list), r)
    ELSE OfRank(Tail(list), r)

\* C22: the list get_pending_tasks returns holds, rank by rank, exactly the
\* tasks of the three parsers in their order of parsing (so none is lost,
\* none duplicated and equal ranks keep their order), and its ranks never
\* decrease: HIGH, then MED, then LOW, then the tasks with no priority or
\* with any other label.
C22_PriorityOrder ==
    Sorted =>
        /\ \A r \in 1..4 : OfRank(tasks, r) = OfRank(Together, r)
        /\ Len(tasks) = Len(Together)
        /\ \A i, j \in 1..Len(tasks) : i < j => RankOf(tasks[i]) <= RankOf(tasks[j])

\* TODO.md lists an URGENT, a LOW and a lower-case high task in that order;
\* they come back as HIGH, LOW, URGENT, followed by the PLAN.md task and
\* the two CLAUDE.md tasks.
C22_Witness ==
    /\ td_pc = "sorted"
    /\ Len(tasks) = 6
    /\ Together[1].priority = <<"U", "R", "G", "E", "N", "T">>
    /\ Together[2].priority = <<"L", "O", "W">>
    /\ tasks[1].priority = <<"H", "I", "G", "H">>
    /\ tasks[2].priority = <<"L", "O", "W">>
    /\ tasks[3].priority = <<"U", "R", "G", "E", "N", "T">>
    /\ tasks[4].source = "PLAN.md"
    /\ tasks[5].source = "CLAUDE.md" /\ tasks[5].title = <<"c">>
    /\ tasks[6].source = "CLAUDE.md" /\ tasks[6].title = <<"e">>

Absent(file) == file.status \in {"missing", "unreadable"}

\* C24: a parser whose file is missing or unreadable adds nothing and the
\* call goes on to its next statement, nothing is ever raised, and when all
\* three files are missing get_pending_tasks returns the empty list and
\* has_pending_tasks returns False.
C24_MissingIsEmpty ==
    /\ td_pc # "raised"
    /\ Sorted /\ md_files = [todo |-> Missing, plan |-> Missing, claude |-> Missing]
           => tasks = <<>> /\ td_pc # "True"
    /\ [][td_pc = "idle" /\ Absent(md_files.todo)
              => td_pc' = "plan" /\ tasks' = tasks]_vars
    /\ [][td_pc = "plan" /\ Absent(md_files.plan)
              => td_pc' = "claude" /\ tasks' = tasks]_vars
    /\ [][td_pc = "claude" /\ Absent(md_files.claude)
              => td_pc' = "sort" /\ tasks' = tasks]_vars

\* TODO.md and CLAUDE.md cannot be read, PLAN.md does not exist, and
\* has_pending_tasks has returned False.
C24_Witness ==
    /\ td_pc = "False"
    /\ md_files = [todo |-> Unreadable, plan |-> Missing, claude |-> Unreadable]
    /\ tasks = <<>>

----------------------------------------------------------------------------
(* Eventual delivery.                                                       *)

\* the instants after which a whole settle window still lies within the run
Early == {t \in Instants : \E u \in Instants : u >= t + DEBOUNCE_SECONDS}

PendingSince(t) ==
    /\ probe.src_path \in Keys(pending_changes)
    /\ Timestamp(pending_changes, probe.src_path) = t

JustReturned ==
    /\ pc = "handle"
    /\ probe.src_path \in Range(ready_changes)
    /\ probe.src_path \notin Keys(pending_changes)

RecordedAfter(t) ==
    /\ probe.src_path \in Keys(pending_changes)
    /\ Timestamp(pending_changes, probe.src_path) > t

\* C26: while the loop keeps polling and time advances, a path recorded at
\* an instant t is eventually returned by a drain, unless it is recorded
\* again at a later instant.
C26_EventualDelivery ==
    \A t \in Early : PendingSince(t) ~> (JustReturned \/ RecordedAfter(t))

\* The path recorded at 21 and not again has been returned by the drain at 41.
C26_Witness ==
    /\ clock = 41 /\ now = 41
    /\ JustReturned
    /\ Count(lastAdd, probe.src_path) = 21
    /\ scheduled = <<>>

----------------------------------------------------------------------------
(* Postponement.                                                            *)

\* how long the drain reading `now` finds p owed, and how long since its
\* last record
OwedFor(p) == now - cycleStart[p]
QuietFor(p) == now - lastAdd[p]

\* C27: however long a path has been owed, a drain that reads the clock less
\* than DEBOUNCE_SECONDS after the path's last record passes over it (it is
\* not returned and stays pending from the same first record); a drain
\* returns a path only when at least DEBOUNCE_SECONDS lie between the
\* path's last record and the drain.
C27_Postponement ==
    /\ [][DrainReturns =>
             \A p \in Owed :
                OwedFor(p) >= 0 /\ QuietFor(p) < DEBOUNCE_SECONDS =>
                   /\ p \notin Range(ready_changes')
                   /\ p \in Keys(pending_changes')
                   /\ p \in DOMAIN cycleStart' /\ cycleStart'[p] = cycleStart[p]
                   /\ Count(returned', p) = Count(returned, p)]_vars
    /\ [][DrainReturns =>
             \A p \in Range(ready_changes') :
                QuietFor(p) >= DEBOUNCE_SECONDS]_vars

\* The path was first recorded at 0 and last at 22; the drain at 41, more
\* than two settle windows after the first record, has passed over it, and
\* no drain has ever returned it.
C27_Witness ==
    /\ pc = "handle" /\ now = 41
    /\ probe.src_path \in Keys(pending_changes)
    /\ Count(cycleStart, probe.src_path) = 0
    /\ probe.src_path \in DOMAIN cycleStart
    /\ lastAdd[probe.src_path] = 22
    /\ Count(returned, probe.src_path) = 0
    /\ ready_changes = <<>>

----------------------------------------------------------------------------
(* Events while a batch is handled.                                         *)

Delivered == \E path \in EventPaths : scheduled' = Append(scheduled, path)

\* get_user_approval is inside input()
Prompting == pc = "approve"

\* C28: an event delivered while a batch is handled waits as exactly one
\* call of add_change: while the prompt blocks the event loop no call runs
\* and pending_changes stays as it is; the waiting calls leave only by
\* running, oldest first, once the loop is not blocked; the call stores the
\* time at which it runs, which is not earlier than the delivery; and a
\* drain returns a path only DEBOUNCE_SECONDS or more after the call ran.
C28_DelayedNotLost ==
    /\ Len(scheduled) = Len(posted.queue)
    /\ [][Prompting => /\ pending_changes' = pending_changes
                       /\ scheduled' = scheduled \/ Delivered]_vars
    /\ [][scheduled' # scheduled /\ ~Delivered =>
             /\ ~Prompting
             /\ scheduled' = Tail(scheduled)
             /\ Keys(pending_changes') = Keys(pending_changes) \cup {Head(scheduled)}
             /\ Timestamp(pending_changes', Head(scheduled)) = clock
             /\ lastAdd'[Head(scheduled)] = clock
             /\ clock >= posted.queue[1].at]_vars
    /\ [][DrainReturns =>
             \A p \in Range(ready_changes') :
                /\ now - lastAdd[p] >= DEBOUNCE_SECONDS
                /\ lastAdd[p] >= posted.writer]_vars

\* The event was delivered at 21 while the prompt blocked the loop; the
\* prompt was answered and the call ran at 41, storing 41, and the drain
\* that followed at 41 has passed over the path.
C28_Witness ==
    /\ posted.held /\ posted.writer = 21
    /\ probe.src_path \in Keys(pending_changes)
    /\ Timestamp(pending_changes, probe.src_path) = 41
    /\ Count(lastAdd, probe.src_path) = 41
    /\ pc = "handle" /\ now = 41
    /\ ready_changes = <<>>
    /\ scheduled = <<>>

----------------------------------------------------------------------------
(* A batch after its drain.                                                 *)

Rewritten ==
    \E p \in Keys(pending_changes') :
        p \in Keys(pending_changes) =>
            Timestamp(pending_changes', p) # Timestamp(pending_changes, p)

LoopSteps == pc' # pc

\* C29: an entry of pending_changes is written only by a call of add_change
\* that a file event has scheduled; the steps of the polling loop schedule
\* no call and change pending_changes only by the removal of a drain; a
\* batch is held in ready_changes only from its drain to the filter that
\* follows, after which it is gone; and an analysis starts only at that
\* filter, on paths of the batch just drained.
C29_HandledAtMostOnce ==
    /\ pc \in {"analyze", "approve", "fix", "sleep", "poll"} => ready_changes = <<>>
    /\ [][Rewritten => /\ scheduled # <<>>
                       /\ scheduled' = Tail(scheduled)
                       /\ pending_changes' = SetItem(pending_changes, Head(scheduled), clock)
                       /\ ~LoopSteps]_vars
    /\ [][LoopSteps => /\ scheduled' = scheduled
                       /\ pending_changes' = pending_changes \/ DrainReturns
                       /\ Keys(pending_changes') \subseteq Keys(pending_changes)]_vars
    /\ [][ready_changes' # ready_changes =>
             \/ DrainReturns
             \/ pc = "handle" /\ ready_changes' = <<>>]_vars
    /\ [][AnalysisStarts => /\ pc = "handle"
                            /\ existing_files' # <<>>
                            /\ Range(existing_files') \subseteq Range(ready_changes)
                            /\ ready_changes' = <<>>]_vars

\* The analysis of the drained path has failed and analyze_changes has
\* returned to the loop; at 41 the path is in no table, no call is waiting,
\* and it has been returned once for its one record.
C29_Witness ==
    /\ clock = 41 /\ pc = "sleep"
    /\ analysis = "failed"
    /\ Count(returned, probe.src_path) = 1
    /\ Count(cycles, probe.src_path) = 1
    /\ pending_changes = <<>>
    /\ scheduled = <<>>

----------------------------------------------------------------------------
(* Deleted and moved files.                                                 *)

Unhandled_event == dropped' # dropped

Removed(p) == p \in Keys(pending_changes) /\ p \notin Keys(pending_changes')

\* C30: a deleted or moved event schedules no call of add_change and leaves
\* pending_changes, and every other part of the tracker, as they are; calls
\* are scheduled by on_modified and on_created only; an entry leaves
\* pending_changes only by being returned by a drain; and a drain that
\* follows such an event still returns every settled entry.
C30_OnlyModifiedAndCreated ==
    /\ [][Unhandled_event =>
             /\ dropped' \in {"deleted", "moved", "deleted, pending", "moved, pending"}
             /\ scheduled' = scheduled
             /\ pending_changes' = pending_changes
             /\ <<lock, now, paths_to_remove, ready_changes>>'
                    = <<lock, now, paths_to_remove, ready_changes>>]_vars
    /\ [][Len(scheduled') > Len(scheduled) =>
             /\ dropped' = dropped
             /\ scheduled' = Append(scheduled, probe.src_path)]_vars
    /\ [][\A p \in EventPaths :
             Removed(p) => DrainReturns /\ p \in Range(ready_changes')]_vars
    /\ [][DrainReturns /\ dropped # "none" =>
             \A p \in Keys(pending_changes) :
                now - Timestamp(pending_changes, p) >= DEBOUNCE_SECONDS
                    => p \in Range(ready_changes')]_vars

\* The file was recorded at 1 and deleted while its entry was pending; the
\* entry stayed, and the drain at 21 has returned it.
C30_Witness ==
    /\ dropped = "deleted, pending"
    /\ pc = "handle" /\ now = 21
    /\ ready_changes = <<probe.src_path>>
    /\ Count(lastAdd, probe.src_path) = 1
    /\ Count(cycles, probe.src_path) = 1
    /\ Count(returned, probe.src_path) = 1

====
